---- MODULE Spec2Model ----
(***************************************************************************)
(* simple-bank-server: an Express relay in front of Plaid and TrueLayer.   *)
(*                                                                         *)
(* The repository holds four revisions of the server program:              *)
(*   "part_000"  src/unnamed/part_000           Plaid, PLAID_ENV checked   *)
(*   "part_001"  src/unnamed/part_001           Plaid, required vars       *)
(*   "index_a"   src/src/index.ts lines 1-365   TrueLayer, refresh-capable *)
(*   "index_b"   src/src/index.ts lines 367-730 Plaid + TrueLayer, plain   *)
(* index_b uses plaidClient without constructing it; its Plaid calls are   *)
(* modelled as the calls the other revisions make through that client.     *)
(*                                                                         *)
(* A handler runs atomically between its awaits: one action takes the      *)
(* request up to the first upstream call (or to the response), and one     *)
(* action per await takes the upstream reply up to the next call or to the *)
(* response.                                                               *)
(*                                                                         *)
(* Specifications:                                                         *)
(*   Spec            every revision, one request at a time                 *)
(*   SpecLive        Spec, every awaited upstream call settling            *)
(*   SpecDates       Plaid getTransactions over a dense range of times     *)
(*   SpecAuthLink    createTruelayerAuthLink, every TrueLayer setting      *)
(*   SpecConcurrent  the refresh-capable handlers, requests overlapping    *)
(***************************************************************************)
EXTENDS Integers, Sequences, FiniteSets, TLC

VARIABLES
  file,     \* which revision of the program is running
  env,      \* process.env, read-only after the process has started
  server,   \* "boot" | "listening" | "exited"
  rq,       \* the request being served: handler, position, upstream calls, response
  reqs      \* the requests in flight at once when requests overlap, by request number

vars == <<file, env, server, rq, reqs>>

Files == {"part_000", "part_001", "index_a", "index_b"}

----------------------------------------------------------------------------
(* JavaScript values *)

\* `undefined` for a string-valued slot (an absent body field or env var)
Undefined == "undefined"

\* `undefined` for a comma-list env var, whose set values are character sequences
UndefinedChars == <<Undefined>>

\* a falsy response body (no data)
NoData == <<>>

\* !x is false: a string that is neither undefined nor empty
Truthy(v) == v # Undefined /\ v # ""

\* (x || "") on a character sequence
OrEmpty(s) == IF s = UndefinedChars \/ s = <<>> THEN <<>> ELSE s

\* String.prototype.split(sep): the pieces between separators, empty ones kept;
\* "".split(",") is [""], a list of length 1
RECURSIVE Split(_, _)
Split(s, sep) ==
  IF \E i \in 1..Len(s) : s[i] = sep
    THEN LET i == CHOOSE k \in 1..Len(s) : s[k] = sep /\ \A j \in 1..(k - 1) : s[j] # sep
         IN  <<SubSeq(s, 1, i - 1)>> \o Split(SubSeq(s, i + 1, Len(s)), sep)
    ELSE <<s>>

\* the characters of a string literal of the program or of a configured value
Chars(str) ==
  CASE str = "" -> <<>>
    [] str = "GB" ->
         <<"G", "B">>
    [] str = "US" ->
         <<"U", "S">>
    [] str = "US,GB" ->
         <<"U", "S", ",", "G", "B">>
    [] str = "auth" ->
         <<"a", "u", "t", "h">>
    [] str = "response_type" ->
         <<"r", "e", "s", "p", "o", "n", "s", "e", "_", "t", "y", "p", "e">>
    [] str = "client_id" ->
         <<"c", "l", "i", "e", "n", "t", "_", "i", "d">>
    [] str = "scope" ->
         <<"s", "c", "o", "p", "e">>
    [] str = "redirect_uri" ->
         <<"r", "e", "d", "i", "r", "e", "c", "t", "_", "u", "r", "i">>
    [] str = "providers" ->
         <<"p", "r", "o", "v", "i", "d", "e", "r", "s">>
    [] str = "state" ->
         <<"s", "t", "a", "t", "e">>
    [] str = "nonce" ->
         <<"n", "o", "n", "c", "e">>
    [] str = "code" ->
         <<"c", "o", "d", "e">>
    [] str = "info accounts balance cards transactions" ->
         <<"i", "n", "f", "o", " ", "a", "c", "c", "o", "u", "n", "t", "s", " ", "b", "a",
           "l", "a", "n", "c", "e", " ", "c", "a", "r", "d", "s", " ", "t", "r", "a", "n",
           "s", "a", "c", "t", "i", "o", "n", "s">>
    [] str = "uk-ob-all uk-oauth-all" ->
         <<"u", "k", "-", "o", "b", "-", "a", "l", "l", " ", "u", "k", "-", "o", "a", "u",
           "t", "h", "-", "a", "l", "l">>
    [] str = "tl-client-id" ->
         <<"t", "l", "-", "c", "l", "i", "e", "n", "t", "-", "i", "d">>
    [] str = "https://app.example/callback" ->
         <<"h", "t", "t", "p", "s", ":", "/", "/", "a", "p", "p", ".", "e", "x", "a", "m",
           "p", "l", "e", "/", "c", "a", "l", "l", "b", "a", "c", "k">>
    [] str = "https://app.example/cb?x=1&state=evil" ->
         <<"h", "t", "t", "p", "s", ":", "/", "/", "a", "p", "p", ".", "e", "x", "a", "m",
           "p", "l", "e", "/", "c", "b", "?", "x", "=", "1", "&", "s", "t", "a", "t", "e",
           "=", "e", "v", "i", "l">>
    [] str = "https://auth.truelayer.com" ->
         <<"h", "t", "t", "p", "s", ":", "/", "/", "a", "u", "t", "h", ".", "t", "r", "u",
           "e", "l", "a", "y", "e", "r", ".", "c", "o", "m">>
    [] str = "https://auth.truelayer-sandbox.com" ->
         <<"h", "t", "t", "p", "s", ":", "/", "/", "a", "u", "t", "h", ".", "t", "r", "u",
           "e", "l", "a", "y", "e", "r", "-", "s", "a", "n", "d", "b", "o", "x", ".", "c",
           "o", "m">>

\* Array.prototype.includes
Includes(list, x) == \E i \in 1..Len(list) : list[i] = x

----------------------------------------------------------------------------
(* Upstream replies, as axios delivers them *)

\* a 2xx reply with its payload
Ok(d) == [kind |-> "ok", status |-> 200, data |-> d]

\* a non-2xx reply: axios throws an error carrying response.status and response.data
Http(s, d) == [kind |-> "http", status |-> s, data |-> d]

\* no reply at all: axios throws an error without a response
NetworkError == [kind |-> "network", status |-> 0, data |-> NoData]

\* the reply slot of a call that is still in flight
NoReply == [kind |-> "none", status |-> 0, data |-> NoData]

UpstreamBody == [error_code |-> "UPSTREAM_ERROR"]

Failures ==
  { Http(s, d) : s \in {401, 403, 500}, d \in {UpstreamBody, NoData} } \cup {NetworkError}

\* error.response?.status
ErrStatus(reply) == IF reply.kind = "http" THEN reply.status ELSE 0

\* error.response?.data is truthy
ErrHasData(reply) == reply.kind = "http" /\ reply.data # NoData

\* error.message of the thrown axios error
ErrMessage(reply) ==
  IF reply.kind = "network" THEN "Network Error"
  ELSE IF reply.status = 401 THEN "Request failed with status code 401"
  ELSE IF reply.status = 403 THEN "Request failed with status code 403"
  ELSE "Request failed with status code 500"

----------------------------------------------------------------------------
(* Requests *)

Idle ==
  [handler |-> "none", pc |-> "idle", args |-> <<>>, calls |-> <<>>,
   refreshData |-> NoData, locals |-> <<>>,
   sent |-> 0, status |-> 0, body |-> NoData]

\* how many requests may be in flight at once
MaxRequests == 2

RequestIds == 1..MaxRequests

\* no request is in flight
NoneInFlight == [i \in RequestIds |-> Idle]

\* the handler is entered with the parsed request
Enter(h, a) == [Idle EXCEPT !.handler = h, !.pc = "run", !.args = a]

\* `await` on a new upstream call: it is appended to the request's calls, not yet completed
Await(q, at, call) ==
  [q EXCEPT !.pc = at, !.calls = Append(@, call @@ [done |-> FALSE, reply |-> NoReply])]

\* the awaited call has completed (resolved or rejected) with this reply
Complete(q, reply) ==
  [q EXCEPT !.calls[Len(q.calls)].done = TRUE, !.calls[Len(q.calls)].reply = reply]

\* res.status(s).json(b)
Send(q, s, b) == [q EXCEPT !.pc = "done", !.sent = @ + 1, !.status = s, !.body = b]

\* res.json(b): status 200
SendJson(q, b) == Send(q, 200, b)

----------------------------------------------------------------------------
(* Time: instants are minutes since 1970-01-01T00:00Z; seconds and          *)
(* milliseconds are carried through every computation below unchanged and   *)
(* are left out.                                                            *)

\* Day number (days since 1970-01-01) of a proleptic Gregorian date: MakeDay
DaysFromCivil(y, m, d) ==
  LET yy  == IF m <= 2 THEN y - 1 ELSE y
      era == yy \div 400
      yoe == yy - era * 400
      mp  == IF m > 2 THEN m - 3 ELSE m + 9
      doy == (153 * mp + 2) \div 5 + d - 1
      doe == yoe * 365 + yoe \div 4 - yoe \div 100 + doy
  IN  era * 146097 + doe - 719468

\* <<year, month (1..12), day>> of a day number: YearFromTime, MonthFromTime, DateFromTime
CivilFromDays(n) ==
  LET z   == n + 719468
      era == z \div 146097
      doe == z - era * 146097
      yoe == (doe - doe \div 1460 + doe \div 36524 - doe \div 146096) \div 365
      doy == doe - (365 * yoe + yoe \div 4 - yoe \div 100)
      mp  == (5 * doy + 2) \div 153
      d   == doy - (153 * mp + 2) \div 5 + 1
      m   == IF mp < 10 THEN mp + 3 ELSE mp - 9
      y   == yoe + era * 400 + (IF m <= 2 THEN 1 ELSE 0)
  IN  <<y, m, d>>

MinPerDay == 24 * 60

\* Day(t) and TimeWithinDay(t)
DayOf(t) == t \div MinPerDay
MinuteOfDay(t) == t % MinPerDay

\* Date.UTC(y, m, d, h, min) with a 1-based month; out-of-range fields carry over
DateUTC(y, m, d, h, min) == DaysFromCivil(y, m, d) * MinPerDay + h * 60 + min

\* toISOString().split("T")[0]: the UTC calendar date, <<YYYY, MM, DD>>
IsoDate(t) == CivilFromDays(DayOf(t))

\* A time zone: standard and daylight offsets in minutes east of UTC, and the UTC
\* instants between which the daylight offset applies
OffsetAt(z, t) == IF z.dstStart <= t /\ t < z.dstEnd THEN z.dst ELSE z.std

\* LocalTime(t)
LocalTime(z, t) == t + OffsetAt(z, t)

\* UTC(tl): the instant whose local time is tl; a local time that occurs twice means
\* the earlier instant, one that is skipped is read with the offset before the change
UTCOf(z, tl) ==
  LET viaStd == tl - z.std
      viaDst == tl - z.dst
  IN  IF OffsetAt(z, viaDst) = z.dst THEN viaDst
      ELSE IF OffsetAt(z, viaStd) = z.std THEN viaStd
      ELSE IF viaStd >= z.dstStart /\ viaDst < z.dstStart THEN viaStd
      ELSE viaDst

\* d.setDate(d.getDate() + delta): local calendar arithmetic, local time of day kept
SetDateBy(z, t, delta) ==
  LET tl  == LocalTime(z, t)
      ymd == CivilFromDays(DayOf(tl))
      day == DaysFromCivil(ymd[1], ymd[2], 1) + (ymd[3] + delta) - 1
  IN  UTCOf(z, day * MinPerDay + MinuteOfDay(tl))

At(y, m, d, h, min) == DateUTC(y, m, d, h, min)

Zones ==
  { [name |-> "UTC", std |-> 0, dst |-> 0, dstStart |-> 0, dstEnd |-> 0],
    [name |-> "Asia/Kolkata", std |-> 330, dst |-> 330, dstStart |-> 0, dstEnd |-> 0],
    [name |-> "Europe/London", std |-> 0, dst |-> 60,
     dstStart |-> At(2024, 3, 31, 1, 0), dstEnd |-> At(2024, 10, 27, 1, 0)],
    [name |-> "America/New_York", std |-> -300, dst |-> -240,
     dstStart |-> At(2024, 3, 10, 7, 0), dstEnd |-> At(2024, 11, 3, 6, 0)] }

----------------------------------------------------------------------------
(* Process start: the module's top-level code, up to app.listen *)

PlaidEnvironments == {"production", "sandbox", "development"}

requiredEnvVars == {"PLAID_CLIENT_ID", "PLAID_SECRET", "PLAID_ENV"}

\* part_000: process.exit(1) unless PlaidEnvironments[process.env.PLAID_ENV] is set
PlaidEnvKnown(e) == e.PLAID_ENV \in PlaidEnvironments

\* part_001: process.exit(1) if one of the required variables is unset or empty
RequiredEnvVarsSet(e) == \A v \in requiredEnvVars : Truthy(e[v])

\* whether the top-level code of revision f reaches app.listen
ReachesListen(f, e) ==
  CASE f = "part_000" -> PlaidEnvKnown(e)
    [] f = "part_001" -> RequiredEnvVarsSet(e)
    [] OTHER          -> TRUE

Startup ==
  /\ server = "boot"
  /\ server' = IF ReachesListen(file, env) THEN "listening" ELSE "exited"
  /\ UNCHANGED <<file, env, rq, reqs>>

\* a request is routed to a handler of the running revision
Accepts(f) == server = "listening" /\ file = f /\ rq.pc = "idle"

\* the response has gone out and the connection is closed; the next request may come
Finish ==
  /\ rq.pc = "done"
  /\ rq' = Idle
  /\ UNCHANGED <<file, env, server, reqs>>

----------------------------------------------------------------------------
(* TrueLayer, refresh-capable revision (index_a) *)

\* Basic credentials built from the client id and secret
BasicAuth(e) == <<e.TRUELAYER_CLIENT_ID, e.TRUELAYER_CLIENT_SECRET>>

AccountsCall(token) ==
  [api |-> "truelayer", method |-> "GET", url |-> "/data/v1/accounts", bearer |-> token]

TransactionsCall(token, accountId, from, to) ==
  [api |-> "truelayer", method |-> "GET", url |-> "/data/v1/accounts/:accountId/transactions",
   accountId |-> accountId, bearer |-> token, from |-> from, to |-> to]

RefreshCall(e, refreshToken) ==
  [api |-> "truelayer", method |-> "POST", url |-> "/connect/token",
   grant_type |-> "refresh_token", refresh_token |-> refreshToken, basic |-> BasicAuth(e)]

\* the data call of the handler the request is in, with the given bearer token
DataCall(q, token) ==
  IF q.handler = "getTruelayerAccounts"
    THEN AccountsCall(token)
    ELSE TransactionsCall(token, q.args.accountId, q.locals.from, q.locals.to)

\* the body of the handler's outer catch
GenericError(q) ==
  IF q.handler = "getTruelayerAccounts"
    THEN [error |-> "Failed to fetch accounts"]
    ELSE [error |-> "Failed to fetch transactions"]

\* variant: the refresh token is not looked at
ShouldRefreshWithoutToken(reply, refreshToken) == ErrStatus(reply) = 401

\* variant: the status of the failure is not looked at
ShouldRefreshOnAnyError(reply, refreshToken) == Truthy(refreshToken)

\* error.response?.status === 401 && refreshToken
ShouldRefresh(reply, refreshToken) == ErrStatus(reply) = 401 /\ Truthy(refreshToken)

\* variant: the retried data is returned without the new tokens
WithNewTokensLost(data, refreshData) == data

\* { ...retryResponse.data, newAccessToken, newRefreshToken }
WithNewTokens(data, refreshData) ==
  [newAccessToken |-> refreshData.access_token,
   newRefreshToken |-> refreshData.refresh_token] @@ data

\* variant: a request that carries a refresh token refreshes whatever the primary
\* call returned
AfterPrimaryAlwaysRefresh(e, q, reply) ==
  IF Truthy(q.args.refreshToken)
    THEN Await(q, "refresh", RefreshCall(e, q.args.refreshToken))
  ELSE IF reply.kind = "ok" THEN SendJson(q, reply.data)
  ELSE Send(q, 500, GenericError(q))

\* the inner try and its catch, from the primary reply on
AfterPrimary(e, q, reply) ==
  IF reply.kind = "ok" THEN SendJson(q, reply.data)
  ELSE IF ShouldRefresh(reply, q.args.refreshToken)
    THEN Await(q, "refresh", RefreshCall(e, q.args.refreshToken))
  ELSE Send(q, 500, GenericError(q))

\* variant: after a failed refresh the data call is retried with the caller's pair
AfterRefreshRetryAnyway(q, reply) ==
  IF reply.kind = "ok"
    THEN Await([q EXCEPT !.refreshData = reply.data], "retry",
               DataCall(q, reply.data.access_token))
    ELSE Await([q EXCEPT !.refreshData = [access_token  |-> q.args.accessToken,
                                          refresh_token |-> q.args.refreshToken]],
               "retry", DataCall(q, q.args.accessToken))

\* variant: the retried call carries the caller's access token again
AfterRefreshOldToken(q, reply) ==
  IF reply.kind = "ok"
    THEN Await([q EXCEPT !.refreshData = reply.data], "retry",
               DataCall(q, q.args.accessToken))
    ELSE Send(q, 500, GenericError(q))

\* from the refresh reply on: a failed refresh is thrown to the outer catch
AfterRefresh(q, reply) ==
  IF reply.kind = "ok"
    THEN Await([q EXCEPT !.refreshData = reply.data], "retry",
               DataCall(q, reply.data.access_token))
    ELSE Send(q, 500, GenericError(q))

\* variant: a retry that fails with 401 refreshes again
AfterRetryAgain(q, reply) ==
  IF reply.kind = "ok"
    THEN SendJson(q, WithNewTokens(reply.data, q.refreshData))
  ELSE IF ShouldRefresh(reply, q.args.refreshToken)
    THEN Await(q, "refresh", RefreshCall(env, q.args.refreshToken))
  ELSE Send(q, 500, GenericError(q))

\* from the retry reply on: a failed retry is thrown to the outer catch
AfterRetry(q, reply) ==
  IF reply.kind = "ok"
    THEN SendJson(q, WithNewTokens(reply.data, q.refreshData))
    ELSE Send(q, 500, GenericError(q))

\* Date.UTC(now.getUTCFullYear(), now.getUTCMonth(), 1)
StartOfUTCMonth(now) ==
  LET ymd == IsoDate(now) IN DateUTC(ymd[1], ymd[2], 1, 0, 0)

\* Date.UTC(year, month, date, hours, hours - 1, seconds, ms): the minutes field is
\* given the hour minus one
EndDateUTC(now) ==
  LET ymd == IsoDate(now)
      h   == MinuteOfDay(now) \div 60
  IN  DateUTC(ymd[1], ymd[2], ymd[3], h, h - 1)

\* getTruelayerAccounts up to its first await: the primary call with the caller's token
StartAccounts(accessToken, refreshToken) ==
  LET q == Enter("getTruelayerAccounts",
                 [accessToken |-> accessToken, refreshToken |-> refreshToken])
  IN  Await(q, "primary", DataCall(q, accessToken))

\* getTruelayerTransactions up to its first await: the date range, then the primary call
StartTransactions(accessToken, refreshToken, accountId, now) ==
  LET q == [Enter("getTruelayerTransactions",
                  [accessToken |-> accessToken, refreshToken |-> refreshToken,
                   accountId |-> accountId])
              EXCEPT !.locals = [now |-> now, from |-> StartOfUTCMonth(now),
                                 to |-> EndDateUTC(now)]]
  IN  Await(q, "primary", DataCall(q, accessToken))

getTruelayerAccounts(accessToken, refreshToken) ==
  /\ Accepts("index_a")
  /\ rq' = StartAccounts(accessToken, refreshToken)
  /\ UNCHANGED <<file, env, server, reqs>>

getTruelayerAccounts_primary(reply) ==
  /\ rq.handler = "getTruelayerAccounts" /\ rq.pc = "primary"
  /\ rq' = AfterPrimary(env, Complete(rq, reply), reply)
  /\ UNCHANGED <<file, env, server, reqs>>

getTruelayerAccounts_refresh(reply) ==
  /\ rq.handler = "getTruelayerAccounts" /\ rq.pc = "refresh"
  /\ rq' = AfterRefresh(Complete(rq, reply), reply)
  /\ UNCHANGED <<file, env, server, reqs>>

getTruelayerAccounts_retry(reply) ==
  /\ rq.handler = "getTruelayerAccounts" /\ rq.pc = "retry"
  /\ rq' = AfterRetry(Complete(rq, reply), reply)
  /\ UNCHANGED <<file, env, server, reqs>>

getTruelayerTransactions(accessToken, refreshToken, accountId, now) ==
  /\ Accepts("index_a")
  /\ rq' = StartTransactions(accessToken, refreshToken, accountId, now)
  /\ UNCHANGED <<file, env, server, reqs>>

getTruelayerTransactions_primary(reply) ==
  /\ rq.handler = "getTruelayerTransactions" /\ rq.pc = "primary"
  /\ rq' = AfterPrimary(env, Complete(rq, reply), reply)
  /\ UNCHANGED <<file, env, server, reqs>>

getTruelayerTransactions_refresh(reply) ==
  /\ rq.handler = "getTruelayerTransactions" /\ rq.pc = "refresh"
  /\ rq' = AfterRefresh(Complete(rq, reply), reply)
  /\ UNCHANGED <<file, env, server, reqs>>

getTruelayerTransactions_retry(reply) ==
  /\ rq.handler = "getTruelayerTransactions" /\ rq.pc = "retry"
  /\ rq' = AfterRetry(Complete(rq, reply), reply)
  /\ UNCHANGED <<file, env, server, reqs>>

----------------------------------------------------------------------------
(* TrueLayer token endpoints (index_a and index_b) *)

ExchangeCall(e, code) ==
  [api |-> "truelayer", method |-> "POST", url |-> "/connect/token",
   grant_type |-> "authorization_code", redirect_uri |-> e.TRUELAYER_REDIRECT_URI,
   code |-> code, basic |-> BasicAuth(e)]

\* { error, details: error.response?.data || error.message }
ErrorWithDetails(text, reply) ==
  [error |-> text, details |-> IF ErrHasData(reply) THEN reply.data ELSE ErrMessage(reply)]

\* variant: only the access token of the upstream payload is returned
AfterExchangeAccessOnly(q, reply) ==
  IF reply.kind = "ok"
    THEN SendJson(q, [access_token |-> reply.data.access_token])
    ELSE Send(q, 500, ErrorWithDetails("Failed to exchange authorization code", reply))

\* exchangeTruelayerCode from the reply on
AfterExchange(q, reply) ==
  IF reply.kind = "ok"
    THEN SendJson(q, reply.data)
    ELSE Send(q, 500, ErrorWithDetails("Failed to exchange authorization code", reply))

\* refreshTruelayerToken from the reply on
AfterTokenRefresh(q, reply) ==
  IF reply.kind = "ok"
    THEN SendJson(q, reply.data)
    ELSE Send(q, 500, ErrorWithDetails("Failed to refresh token", reply))

exchangeTruelayerCode(f, code) ==
  /\ f \in {"index_a", "index_b"}
  /\ Accepts(f)
  /\ rq' = Await(Enter("exchangeTruelayerCode", [code |-> code]), "call",
                 ExchangeCall(env, code))
  /\ UNCHANGED <<file, env, server, reqs>>

exchangeTruelayerCode_reply(reply) ==
  /\ rq.handler = "exchangeTruelayerCode" /\ rq.pc = "call"
  /\ rq' = AfterExchange(Complete(rq, reply), reply)
  /\ UNCHANGED <<file, env, server, reqs>>

refreshTruelayerToken(refresh_token) ==
  /\ Accepts("index_a")
  /\ rq' = Await(Enter("refreshTruelayerToken", [refresh_token |-> refresh_token]), "call",
                 RefreshCall(env, refresh_token))
  /\ UNCHANGED <<file, env, server, reqs>>

refreshTruelayerToken_reply(reply) ==
  /\ rq.handler = "refreshTruelayerToken" /\ rq.pc = "call"
  /\ rq' = AfterTokenRefresh(Complete(rq, reply), reply)
  /\ UNCHANGED <<file, env, server, reqs>>

----------------------------------------------------------------------------
(* TrueLayer auth link (index_a and index_b) *)

\* the characters the application/x-www-form-urlencoded serializer leaves as they are
Unreserved ==
  { "a", "b", "c", "d", "e", "f", "g", "h", "i", "j", "k", "l", "m", "n", "o",
    "p", "q", "r", "s", "t", "u", "v", "w", "x", "y", "z", "A", "B", "C", "D",
    "E", "F", "G", "H", "I", "J", "K", "L", "M", "N", "O", "P", "Q", "R", "S",
    "T", "U", "V", "W", "X", "Y", "Z", "0", "1", "2", "3", "4", "5", "6", "7",
    "8", "9", "*", "-", ".", "_" }

\* the percent-encoding of the other characters that occur
Escaped ==
  (":" :> <<"%", "3", "A">>) @@ ("/" :> <<"%", "2", "F">>) @@ ("?" :> <<"%", "3", "F">>) @@
  ("=" :> <<"%", "3", "D">>) @@ ("&" :> <<"%", "2", "6">>) @@ ("+" :> <<"%", "2", "B">>) @@
  ("%" :> <<"%", "2", "5">>) @@ ("," :> <<"%", "2", "C">>)

\* variant: names and values are written into the query as they are
FormEncodeNothing(s) == s

\* the serializer of URLSearchParams on one name or value: a space becomes "+",
\* a character outside the unreserved set its percent-encoding
RECURSIVE FormEncode(_)
FormEncode(s) ==
  IF s = <<>> THEN <<>>
  ELSE LET c == Head(s)
           e == IF c \in Unreserved THEN <<c>>
                ELSE IF c = " " THEN <<"+">>
                ELSE Escaped[c]
       IN  e \o FormEncode(Tail(s))

\* new URLSearchParams(params).toString(): name=value pairs in the order of the
\* object's keys, joined by "&"
RECURSIVE URLSearchParams(_)
URLSearchParams(params) ==
  IF params = <<>> THEN <<>>
  ELSE LET pair == FormEncode(params[1][1]) \o <<"=">> \o FormEncode(params[1][2])
       IN  IF Len(params) = 1 THEN pair
           ELSE pair \o <<"&">> \o URLSearchParams(Tail(params))

\* the module constant TRUELAYER_AUTH_URL
TRUELAYER_AUTH_URL(e) ==
  IF e.TRUELAYER_ENV = "production"
    THEN Chars("https://auth.truelayer.com")
    ELSE Chars("https://auth.truelayer-sandbox.com")

requiredTruelayerEnvVars ==
  <<"TRUELAYER_CLIENT_ID", "TRUELAYER_CLIENT_SECRET", "TRUELAYER_REDIRECT_URI", "TRUELAYER_ENV">>

\* requiredEnvVars.filter((varName) => !process.env[varName])
missingVars(e) == SelectSeq(requiredTruelayerEnvVars, LAMBDA v : ~Truthy(e[v]))

\* the message of the Error thrown for missing variables: the text, then the names
MissingVarsMessage(missing) == <<"Missing required environment variables: ">> \o missing

authParams(e, state, nonce) ==
  << <<Chars("response_type"), Chars("code")>>,
     <<Chars("client_id"), Chars(e.TRUELAYER_CLIENT_ID)>>,
     <<Chars("scope"), Chars("info accounts balance cards transactions")>>,
     <<Chars("redirect_uri"), Chars(e.TRUELAYER_REDIRECT_URI)>>,
     <<Chars("providers"), Chars("uk-ob-all uk-oauth-all")>>,
     <<Chars("state"), state>>,
     <<Chars("nonce"), nonce>> >>

\* `${TRUELAYER_AUTH_URL}/?` + new URLSearchParams(authParams).toString()
AuthUrl(e, state, nonce) ==
  TRUELAYER_AUTH_URL(e) \o <<"/", "?">> \o URLSearchParams(authParams(e, state, nonce))

\* the whole handler: it awaits nothing; nonce and state are the two random strings
\* it draws
AuthLink(e, q, state, nonce) ==
  IF Len(missingVars(e)) > 0
    THEN Send(q, 500, [error   |-> "Failed to create Truelayer auth link",
                       details |-> MissingVarsMessage(missingVars(e))])
    ELSE SendJson(q, [authUrl |-> AuthUrl(e, state, nonce), state |-> state, nonce |-> nonce])

createTruelayerAuthLink(f, state, nonce) ==
  /\ f \in {"index_a", "index_b"}
  /\ Accepts(f)
  /\ rq' = AuthLink(env, Enter("createTruelayerAuthLink", <<>>), state, nonce)
  /\ UNCHANGED <<file, env, server, reqs>>

----------------------------------------------------------------------------
(* TrueLayer data endpoints without refresh (index_b) *)

\* new Date(year, month, 1) with setHours(0, 0, 0, 0): local midnight of the first
StartOfLocalMonth(z, now) ==
  LET ymd == CivilFromDays(DayOf(LocalTime(z, now)))
  IN  UTCOf(z, DaysFromCivil(ymd[1], ymd[2], 1) * MinPerDay)

\* new Date(now) with setHours(23, 59, 59, 999): the last minute of the local day
EndOfLocalDay(z, now) ==
  UTCOf(z, DayOf(LocalTime(z, now)) * MinPerDay + 23 * 60 + 59)

\* the plain handlers from the reply on
AfterPlainData(q, reply, text) ==
  IF reply.kind = "ok" THEN SendJson(q, reply.data) ELSE Send(q, 500, [error |-> text])

getTruelayerAccounts_b(accessToken) ==
  /\ Accepts("index_b")
  /\ rq' = Await(Enter("getTruelayerAccounts_b", [accessToken |-> accessToken]), "call",
                 AccountsCall(accessToken))
  /\ UNCHANGED <<file, env, server, reqs>>

getTruelayerAccounts_b_reply(reply) ==
  /\ rq.handler = "getTruelayerAccounts_b" /\ rq.pc = "call"
  /\ rq' = AfterPlainData(Complete(rq, reply), reply, "Failed to fetch accounts")
  /\ UNCHANGED <<file, env, server, reqs>>

getTruelayerTransactions_b(accessToken, accountId, now, z) ==
  /\ Accepts("index_b")
  /\ rq' = Await(Enter("getTruelayerTransactions_b",
                       [accessToken |-> accessToken, accountId |-> accountId]), "call",
                 TransactionsCall(accessToken, accountId,
                                  StartOfLocalMonth(z, now), EndOfLocalDay(z, now)))
  /\ UNCHANGED <<file, env, server, reqs>>

getTruelayerTransactions_b_reply(reply) ==
  /\ rq.handler = "getTruelayerTransactions_b" /\ rq.pc = "call"
  /\ rq' = AfterPlainData(Complete(rq, reply), reply, "Failed to fetch transactions")
  /\ UNCHANGED <<file, env, server, reqs>>

----------------------------------------------------------------------------
(* Plaid (part_000, part_001, index_b) *)

PlaidFiles == {"part_000", "part_001", "index_b"}

\* (process.env.PLAID_COUNTRY_CODES || "").split(",")
CountryCodes(e) == Split(OrEmpty(e.PLAID_COUNTRY_CODES), ",")

\* (process.env.PLAID_PRODUCTS || "").split(",")
Products(e) == Split(OrEmpty(e.PLAID_PRODUCTS), ",")

GB == <<"G", "B">>

\* the validation createLinkToken makes before it builds the request: the message of
\* the Error it throws, or "" when it throws none
CountryCodeError(f, countryCodes) ==
  CASE f = "part_000" ->
         IF Len(countryCodes) = 0 \/ ~Includes(countryCodes, GB)
           THEN "GB must be included in country codes for production environment"
           ELSE ""
    [] f = "index_b" ->
         IF Len(countryCodes) = 0
           THEN "At least one country code must be specified"
           ELSE ""
    [] OTHER -> ""

LinkTokenCall(e, countryCodes) ==
  [api |-> "plaid", method |-> "linkTokenCreate", client_name |-> "Simple Bank",
   client_user_id |-> "user-id", products |-> Products(e),
   country_codes |-> countryCodes, language |-> "en"]

\* the catch of createLinkToken for an Error thrown by the handler itself
LinkTokenThrown(message) ==
  [error |-> "Failed to create link token", details |-> message]

\* the catch of createLinkToken for a failed upstream call; a status that is
\* undefined leaves no field in the JSON
LinkTokenFailed(f, reply) ==
  IF f = "part_001" THEN [error |-> "Failed to create link token"]
  ELSE IF reply.kind = "http"
    THEN ErrorWithDetails("Failed to create link token", reply) @@ [status |-> reply.status]
    ELSE ErrorWithDetails("Failed to create link token", reply)

createLinkToken(f) ==
  /\ f \in PlaidFiles
  /\ Accepts(f)
  /\ rq' = LET q   == Enter("createLinkToken", <<>>)
               cc  == CountryCodes(env)
               msg == CountryCodeError(f, cc)
           IN  IF msg # ""
                 THEN Send(q, 500, LinkTokenThrown(msg))
                 ELSE Await(q, "call", LinkTokenCall(env, cc))
  /\ UNCHANGED <<file, env, server, reqs>>

createLinkToken_reply(reply) ==
  /\ rq.handler = "createLinkToken" /\ rq.pc = "call"
  /\ rq' = LET q == Complete(rq, reply)
           IN  IF reply.kind = "ok"
                 THEN SendJson(q, reply.data)
                 ELSE Send(q, 500, LinkTokenFailed(file, reply))
  /\ UNCHANGED <<file, env, server, reqs>>

PublicTokenCall(public_token) ==
  [api |-> "plaid", method |-> "itemPublicTokenExchange", public_token |-> public_token]

\* exchangePublicToken from the reply on
AfterPublicToken(q, reply) ==
  IF reply.kind = "ok"
    THEN SendJson(q, reply.data)
    ELSE Send(q, 500, [error |-> "Failed to exchange public token"])

exchangePublicToken(f, public_token) ==
  /\ f \in PlaidFiles
  /\ Accepts(f)
  /\ rq' = Await(Enter("exchangePublicToken", [public_token |-> public_token]), "call",
                 PublicTokenCall(public_token))
  /\ UNCHANGED <<file, env, server, reqs>>

exchangePublicToken_reply(reply) ==
  /\ rq.handler = "exchangePublicToken" /\ rq.pc = "call"
  /\ rq' = AfterPublicToken(Complete(rq, reply), reply)
  /\ UNCHANGED <<file, env, server, reqs>>

\* variant: only a missing parameter is refused, an empty one is not
AccessTokenUndefinedOnly(access_token) == access_token = Undefined

\* if (!access_token): the query parameter is missing or empty
AccessTokenMissing(access_token) == ~Truthy(access_token)

\* endDate and startDate are two readings of the clock, tEnd first and tStart after
\* it, in the time zone z of the process; startDate.setDate(startDate.getDate() - 30)
DateWindow(z, tEnd, tStart) ==
  [zone |-> z.name, endDate |-> tEnd, startDate |-> SetDateBy(z, tStart, -30)]

TransactionsGetCall(access_token, w) ==
  [api |-> "plaid", method |-> "transactionsGet", access_token |-> access_token,
   start_date |-> IsoDate(w.startDate), end_date |-> IsoDate(w.endDate),
   count |-> 100, offset |-> 0]

\* response.data.transactions || []
TransactionsOf(data) ==
  IF "transactions" \in DOMAIN data THEN data.transactions ELSE <<>>

\* variant: every failure is answered with the generic 500
TransactionsFailedGeneric(q, reply) ==
  Send(q, 500, [error |-> "Failed to fetch transactions", message |-> ErrMessage(reply)])

\* variant: the handler does not return after passing the upstream body through
TransactionsFailedNoReturn(q, reply) ==
  LET generic == [error |-> "Failed to fetch transactions", message |-> ErrMessage(reply)]
  IN  IF ErrHasData(reply)
        THEN Send(Send(q, IF reply.status # 0 THEN reply.status ELSE 500, reply.data),
                  500, generic)
        ELSE Send(q, 500, generic)

\* the catch of getTransactions: the upstream body and status when there is a body,
\* else a 500 with a message
TransactionsFailed(q, reply) ==
  IF ErrHasData(reply)
    THEN Send(q, IF reply.status # 0 THEN reply.status ELSE 500, reply.data)
    ELSE Send(q, 500, [error |-> "Failed to fetch transactions",
                       message |-> ErrMessage(reply)])

getTransactions(f, access_token, z, tEnd, tStart) ==
  /\ f \in PlaidFiles
  /\ Accepts(f)
  /\ tEnd <= tStart
  /\ rq' = LET q == Enter("getTransactions", [access_token |-> access_token])
           IN  IF AccessTokenMissing(access_token)
                 THEN Send(q, 400, [error |-> "Access token is required"])
                 ELSE LET w == DateWindow(z, tEnd, tStart)
                      IN  Await([q EXCEPT !.locals = w], "call",
                                TransactionsGetCall(access_token, w))
  /\ UNCHANGED <<file, env, server, reqs>>

getTransactions_reply(reply) ==
  /\ rq.handler = "getTransactions" /\ rq.pc = "call"
  /\ rq' = LET q == Complete(rq, reply)
           IN  IF reply.kind = "ok"
                 THEN SendJson(q, TransactionsOf(reply.data))
                 ELSE TransactionsFailed(q, reply)
  /\ UNCHANGED <<file, env, server, reqs>>

----------------------------------------------------------------------------
(* The environment: configurations, request inputs, upstream replies, clock *)

CountryCodeSettings == {UndefinedChars, Chars(""), Chars("GB"), Chars("US"), Chars("US,GB")}

\* a configuration every revision starts under
ValidEnv ==
  [PLAID_CLIENT_ID         |-> "plaid-client-id",
   PLAID_SECRET            |-> "plaid-secret",
   PLAID_ENV               |-> "sandbox",
   PLAID_COUNTRY_CODES     |-> Chars("GB"),
   PLAID_PRODUCTS          |-> Chars("auth"),
   TRUELAYER_CLIENT_ID     |-> "tl-client-id",
   TRUELAYER_CLIENT_SECRET |-> "tl-client-secret",
   TRUELAYER_REDIRECT_URI  |-> "https://app.example/callback",
   TRUELAYER_ENV           |-> "sandbox"]

\* the Plaid settings vary freely; the TrueLayer settings are complete, or lack
\* TRUELAYER_ENV
Envs ==
  [PLAID_CLIENT_ID         : {Undefined, "plaid-client-id"},
   PLAID_SECRET            : {Undefined, "plaid-secret"},
   PLAID_ENV               : {Undefined, "sandbox", "staging"},
   PLAID_COUNTRY_CODES     : CountryCodeSettings,
   PLAID_PRODUCTS          : {Chars("auth")},
   TRUELAYER_CLIENT_ID     : {"tl-client-id"},
   TRUELAYER_CLIENT_SECRET : {"tl-client-secret"},
   TRUELAYER_REDIRECT_URI  : {"https://app.example/callback"},
   TRUELAYER_ENV           : {"sandbox"}]
  \cup {[ValidEnv EXCEPT !.TRUELAYER_ENV = Undefined]}

AccessTokens  == {"at0"}
RefreshTokens == {Undefined, "", "rt0"}
AccountIds    == {"acc1"}
Codes         == {"abc"}
PublicTokens  == {"public-1"}
QueryTokens   == {Undefined, "", "access-1"}

DataPayloads ==
  { [results |-> "r1"], [results |-> "r2", status |-> "Succeeded"] }

TokenPayloads ==
  { [access_token |-> "X", refresh_token |-> "Y"],
    [access_token |-> "X2", refresh_token |-> "Y2", token_type |-> "Bearer"] }

LinkTokenPayloads ==
  { [link_token |-> "link-1", expiration |-> "2024-04-15T03:30:00Z", request_id |-> "q1"] }

PublicTokenPayloads ==
  { [access_token |-> "access-1", item_id |-> "item-1"],
    [access_token |-> "access-2", item_id |-> "item-2", request_id |-> "q2"] }

TransactionsPayloads ==
  { [transactions |-> <<"t1", "t2">>, total_transactions |-> "2"],
    [request_id |-> "q3"] }

\* Math.random().toString(36).substring(2, 15): up to 13 characters of 0-9a-z, none
\* when the number drawn is 0
RandomStrings == {<<>>, <<"k">>, <<"4", "f", "z">>}

Replies(payloads) == { Ok(d) : d \in payloads } \cup Failures

\* the invocation times of the main specification
SpecTimes == { At(2024, 4, 14, 23, 30), At(2024, 1, 1, 0, 15) }

\* the clock may move on between two readings
Lags == {0, 1}

Init ==
  /\ file \in Files
  /\ env \in Envs
  /\ server = "boot"
  /\ rq = Idle
  /\ reqs = NoneInFlight

Next ==
  \/ Startup
  \/ Finish
  \/ \E a \in AccessTokens, r \in RefreshTokens : getTruelayerAccounts(a, r)
  \/ \E reply \in Replies(DataPayloads) : getTruelayerAccounts_primary(reply)
  \/ \E reply \in Replies(TokenPayloads) : getTruelayerAccounts_refresh(reply)
  \/ \E reply \in Replies(DataPayloads) : getTruelayerAccounts_retry(reply)
  \/ \E a \in AccessTokens, r \in RefreshTokens, id \in AccountIds, now \in SpecTimes :
       getTruelayerTransactions(a, r, id, now)
  \/ \E reply \in Replies(DataPayloads) : getTruelayerTransactions_primary(reply)
  \/ \E reply \in Replies(TokenPayloads) : getTruelayerTransactions_refresh(reply)
  \/ \E reply \in Replies(DataPayloads) : getTruelayerTransactions_retry(reply)
  \/ \E f \in Files, c \in Codes : exchangeTruelayerCode(f, c)
  \/ \E reply \in Replies(TokenPayloads) : exchangeTruelayerCode_reply(reply)
  \/ \E r \in RefreshTokens : refreshTruelayerToken(r)
  \/ \E reply \in Replies(TokenPayloads) : refreshTruelayerToken_reply(reply)
  \/ \E a \in AccessTokens : getTruelayerAccounts_b(a)
  \/ \E reply \in Replies(DataPayloads) : getTruelayerAccounts_b_reply(reply)
  \/ \E a \in AccessTokens, id \in AccountIds, now \in SpecTimes, z \in Zones :
       getTruelayerTransactions_b(a, id, now, z)
  \/ \E reply \in Replies(DataPayloads) : getTruelayerTransactions_b_reply(reply)
  \/ \E f \in Files : createLinkToken(f)
  \/ \E reply \in Replies(LinkTokenPayloads) : createLinkToken_reply(reply)
  \/ \E f \in Files, t \in PublicTokens : exchangePublicToken(f, t)
  \/ \E reply \in Replies(PublicTokenPayloads) : exchangePublicToken_reply(reply)
  \/ \E f \in Files, t \in QueryTokens, z \in Zones, now \in SpecTimes, lag \in Lags :
       getTransactions(f, t, z, now, now + lag)
  \/ \E reply \in Replies(TransactionsPayloads) : getTransactions_reply(reply)
  \/ \E f \in Files, state \in RandomStrings, nonce \in RandomStrings :
       createTruelayerAuthLink(f, state, nonce)

Spec == Init /\ [][Next]_vars

\* the upstream call a request awaits returns or fails
UpstreamReturns ==
  \/ \E reply \in Replies(DataPayloads) : getTruelayerAccounts_primary(reply)
  \/ \E reply \in Replies(TokenPayloads) : getTruelayerAccounts_refresh(reply)
  \/ \E reply \in Replies(DataPayloads) : getTruelayerAccounts_retry(reply)
  \/ \E reply \in Replies(DataPayloads) : getTruelayerTransactions_primary(reply)
  \/ \E reply \in Replies(TokenPayloads) : getTruelayerTransactions_refresh(reply)
  \/ \E reply \in Replies(DataPayloads) : getTruelayerTransactions_retry(reply)
  \/ \E reply \in Replies(TokenPayloads) : exchangeTruelayerCode_reply(reply)
  \/ \E reply \in Replies(TokenPayloads) : refreshTruelayerToken_reply(reply)
  \/ \E reply \in Replies(DataPayloads) : getTruelayerAccounts_b_reply(reply)
  \/ \E reply \in Replies(DataPayloads) : getTruelayerTransactions_b_reply(reply)
  \/ \E reply \in Replies(LinkTokenPayloads) : createLinkToken_reply(reply)
  \/ \E reply \in Replies(PublicTokenPayloads) : exchangePublicToken_reply(reply)
  \/ \E reply \in Replies(TransactionsPayloads) : getTransactions_reply(reply)

\* the server under the assumption that every upstream call eventually returns or
\* fails; the handler code between two awaits runs to its end within one step
SpecLive == Init /\ [][Next]_vars /\ WF_vars(UpstreamReturns)

----------------------------------------------------------------------------
(* Plaid getTransactions over a dense range of invocation times *)

MaxTick == 2600

\* every half hour from 2024-03-08T23:59Z on: the range covers the start of daylight
\* saving time in New York (10 March) and London (31 March) and the 30 days after
\* each, the minute before UTC midnight and the hours next to local midnight
DenseTimes == { At(2024, 3, 8, 23, 59) + 30 * k : k \in 0..MaxTick }

InitDates ==
  /\ file = "part_001"
  /\ env = ValidEnv
  /\ server = "boot"
  /\ rq = Idle
  /\ reqs = NoneInFlight

NextDates ==
  \/ Startup
  \/ Finish
  \/ /\ rq.pc = "idle"
     /\ \E z \in Zones, now \in DenseTimes, lag \in Lags :
          getTransactions(file, "access-1", z, now, now + lag)
  \/ \E reply \in Replies(TransactionsPayloads) : getTransactions_reply(reply)

SpecDates == InitDates /\ [][NextDates]_vars

----------------------------------------------------------------------------
(* createTruelayerAuthLink under every setting of the TrueLayer variables *)

AuthLinkEnvs ==
  { [ValidEnv EXCEPT !.TRUELAYER_CLIENT_ID = id, !.TRUELAYER_CLIENT_SECRET = secret,
                     !.TRUELAYER_REDIRECT_URI = uri, !.TRUELAYER_ENV = tlEnv] :
      id     \in {Undefined, "tl-client-id"},
      secret \in {Undefined, "", "tl-client-secret"},
      uri    \in {Undefined, "https://app.example/callback",
                  "https://app.example/cb?x=1&state=evil"},
      tlEnv  \in {Undefined, "", "sandbox", "production"} }

InitAuthLink ==
  /\ file \in {"index_a", "index_b"}
  /\ env \in AuthLinkEnvs
  /\ server = "boot"
  /\ rq = Idle
  /\ reqs = NoneInFlight

NextAuthLink ==
  \/ Startup
  \/ Finish
  \/ \E state \in RandomStrings, nonce \in RandomStrings :
       createTruelayerAuthLink(file, state, nonce)

SpecAuthLink == InitAuthLink /\ [][NextAuthLink]_vars

----------------------------------------------------------------------------
(* Requests served at once by the refresh-capable revision (index_a): a     *)
(* handler suspended at an await keeps its own locals while the handlers of *)
(* other requests run; the only values they share are process.env and the  *)
(* module's constants.                                                      *)

\* the handler code of request q that runs when the call it awaits completes
Resumed(e, q, reply) ==
  CASE q.pc = "primary" -> AfterPrimary(e, Complete(q, reply), reply)
    [] q.pc = "refresh" -> AfterRefresh(Complete(q, reply), reply)
    [] q.pc = "retry"   -> AfterRetry(Complete(q, reply), reply)

\* variant: the refreshed token pair is kept in one place for all requests, so the
\* requests waiting for their retried call see the pair refreshed last
ResumeSharingTokens(all, i, reply) ==
  LET q == Resumed(env, all[i], reply)
  IN  [j \in DOMAIN all |->
         IF j = i THEN q
         ELSE IF all[i].pc = "refresh" /\ reply.kind = "ok" /\ all[j].pc = "retry"
           THEN [all[j] EXCEPT !.refreshData = reply.data]
           ELSE all[j]]

\* the continuation of request i runs on the locals of that request alone
Resume(all, i, reply) == [all EXCEPT ![i] = Resumed(env, all[i], reply)]

ConcAccessTokens  == {"at0", "at1"}
ConcRefreshTokens == {Undefined, "rt0"}
ConcTimes         == {At(2024, 4, 14, 23, 30)}

ConcDataReplies  == {Ok([results |-> "r1"]), Http(401, UpstreamBody)}
ConcTokenReplies == { Ok(d) : d \in TokenPayloads } \cup {Http(401, UpstreamBody)}

\* the replies the call request q awaits may get
RepliesFor(q) == IF q.pc = "refresh" THEN ConcTokenReplies ELSE ConcDataReplies

\* a request is routed to a handler while others are in flight
AcceptsAt(i) == server = "listening" /\ file = "index_a" /\ reqs[i].pc = "idle"

getTruelayerAccounts_at(i, accessToken, refreshToken) ==
  /\ AcceptsAt(i)
  /\ reqs' = [reqs EXCEPT ![i] = StartAccounts(accessToken, refreshToken)]
  /\ UNCHANGED <<file, env, server, rq>>

getTruelayerTransactions_at(i, accessToken, refreshToken, accountId, now) ==
  /\ AcceptsAt(i)
  /\ reqs' = [reqs EXCEPT ![i] = StartTransactions(accessToken, refreshToken, accountId, now)]
  /\ UNCHANGED <<file, env, server, rq>>

\* the upstream reply to the call request i awaits arrives; its handler goes on
Reply_at(i, reply) ==
  /\ reqs[i].pc \in {"primary", "refresh", "retry"}
  /\ reqs' = Resume(reqs, i, reply)
  /\ UNCHANGED <<file, env, server, rq>>

Finish_at(i) ==
  /\ reqs[i].pc = "done"
  /\ reqs' = [reqs EXCEPT ![i] = Idle]
  /\ UNCHANGED <<file, env, server, rq>>

InitConcurrent ==
  /\ file = "index_a"
  /\ env = ValidEnv
  /\ server = "boot"
  /\ rq = Idle
  /\ reqs = NoneInFlight

NextConcurrent ==
  \/ Startup
  \/ \E i \in RequestIds, a \in ConcAccessTokens, r \in ConcRefreshTokens :
       getTruelayerAccounts_at(i, a, r)
  \/ \E i \in RequestIds, a \in ConcAccessTokens, r \in ConcRefreshTokens,
        id \in AccountIds, now \in ConcTimes :
       getTruelayerTransactions_at(i, a, r, id, now)
  \/ \E i \in RequestIds : \E reply \in RepliesFor(reqs[i]) : Reply_at(i, reply)
  \/ \E i \in RequestIds : Finish_at(i)

SpecConcurrent == InitConcurrent /\ [][NextConcurrent]_vars

----------------------------------------------------------------------------
(* Properties *)

RefreshHandlers == {"getTruelayerAccounts", "getTruelayerTransactions"}

InRefreshHandler == rq.handler \in RefreshHandlers

IsRefreshCall(c) == c.method = "POST" /\ c.url = "/connect/token" /\ c.grant_type = "refresh_token"

IsDataCall(c) == c.method = "GET"

\* the primary call has been answered with HTTP 401
Primary401 ==
  /\ InRefreshHandler
  /\ rq.calls[1].done
  /\ rq.calls[1].reply.kind = "http" /\ rq.calls[1].reply.status = 401

\* the primary call has failed with something other than HTTP 401
PrimaryOtherFailure ==
  /\ InRefreshHandler
  /\ rq.calls[1].done
  /\ rq.calls[1].reply.kind # "ok"
  /\ ~(rq.calls[1].reply.kind = "http" /\ rq.calls[1].reply.status = 401)

HasRefreshToken == rq.args.refreshToken \notin {Undefined, ""}

\* no call after the primary one has failed
NothingFailedAfterPrimary ==
  \A i \in 2..Len(rq.calls) : rq.calls[i].done => rq.calls[i].reply.kind = "ok"

\* the last upstream call of the request, once the request has one
LastCall == rq.calls[Len(rq.calls)]

\* C1: in the refresh-capable handlers, once a request whose primary call got 401 and
\* which carries a refresh token is answered without a later call having failed,
\* exactly one refresh call and one retried data call were made and the 200 response
\* holds the retried call's data and the token pair of the refresh reply.
C1_RefreshOnceRetryOnce ==
  (Primary401 /\ HasRefreshToken /\ rq.pc = "done" /\ NothingFailedAfterPrimary) =>
    /\ Len(rq.calls) = 3
    /\ IsRefreshCall(rq.calls[2]) /\ IsDataCall(rq.calls[3])
    /\ rq.calls[3].url = rq.calls[1].url
    /\ rq.sent = 1 /\ rq.status = 200
    /\ DOMAIN rq.body = DOMAIN rq.calls[3].reply.data \cup {"newAccessToken", "newRefreshToken"}
    /\ rq.body.newAccessToken = rq.calls[2].reply.data.access_token
    /\ rq.body.newRefreshToken = rq.calls[2].reply.data.refresh_token
    /\ \A k \in DOMAIN rq.calls[3].reply.data : rq.body[k] = rq.calls[3].reply.data[k]

C1_Witness ==
  /\ Primary401 /\ HasRefreshToken /\ rq.pc = "done"
  /\ Len(rq.calls) = 3 /\ rq.status = 200
  /\ rq.body.newAccessToken = "X2"

\* C2 as stated: after a 401 without a refresh token no refresh call is made and the
\* caller receives the upstream error itself, its status and its body.
C2_UpstreamErrorReachesCaller ==
  (Primary401 /\ ~HasRefreshToken) =>
    /\ Len(rq.calls) = 1
    /\ rq.pc = "done" /\ rq.status = rq.calls[1].reply.status
    /\ rq.body = rq.calls[1].reply.data

\* C2 as amended: after a 401 without a refresh token no refresh call is made; the
\* error goes to the handler's outer catch and the caller receives status 500 with the
\* handler's generic error body.
C2_NoRefreshGeneric500 ==
  (Primary401 /\ ~HasRefreshToken) =>
    /\ Len(rq.calls) = 1
    /\ rq.pc = "done" /\ rq.sent = 1
    /\ rq.status = 500
    /\ rq.body = IF rq.handler = "getTruelayerAccounts"
                   THEN [error |-> "Failed to fetch accounts"]
                   ELSE [error |-> "Failed to fetch transactions"]

C2_Witness ==
  /\ Primary401 /\ ~HasRefreshToken /\ rq.pc = "done"
  /\ rq.args.refreshToken = Undefined
  /\ rq.calls[1].reply.data = UpstreamBody

\* C3: once the primary call has failed with anything but HTTP 401, the request has
\* made no other upstream call, whatever its refresh token.
C3_NoRefreshOnOtherErrors ==
  PrimaryOtherFailure => (Len(rq.calls) = 1 /\ rq.pc = "done" /\ IsDataCall(rq.calls[1]))

C3_Witness ==
  /\ PrimaryOtherFailure /\ HasRefreshToken
  /\ rq.calls[1].reply.kind = "http" /\ rq.calls[1].reply.status = 403

\* the request was answered after its last upstream call had failed
AnsweredAfterFailure ==
  /\ rq.pc = "done" /\ Len(rq.calls) >= 1
  /\ LastCall.done /\ LastCall.reply.kind # "ok"

\* the reply of the failed call carries a status and a body
FailureHasBody == LastCall.reply.kind = "http" /\ LastCall.reply.data # NoData

PassedThrough ==
  IF FailureHasBody
    THEN rq.status = LastCall.reply.status /\ rq.body = LastCall.reply.data
    ELSE rq.status = 500 /\ "message" \in DOMAIN rq.body

\* C4 as stated: every handler answers a failed upstream call with the upstream status
\* and body when the failure carries them, and with a 500 holding a message field when
\* the failure carries no response at all.
C4_EveryHandlerPassesThrough ==
  AnsweredAfterFailure =>
    /\ FailureHasBody => (rq.status = LastCall.reply.status /\ rq.body = LastCall.reply.data)
    /\ LastCall.reply.kind = "network" => (rq.status = 500 /\ "message" \in DOMAIN rq.body)

\* C4 as amended: Plaid getTransactions alone passes the upstream status and body
\* through (a 500 with error and message when the failure carries no body); every
\* other handler answers a failed upstream call with status 500 and a body of its own
\* with an error field, never with the upstream status and body.
C4_OnlyGetTransactionsPassesThrough ==
  AnsweredAfterFailure =>
    IF rq.handler = "getTransactions"
      THEN PassedThrough
      ELSE /\ rq.status = 500
           /\ "error" \in DOMAIN rq.body
           /\ rq.body # LastCall.reply.data

C4_Witness ==
  /\ AnsweredAfterFailure /\ FailureHasBody
  /\ rq.handler = "getTransactions"
  /\ rq.status = 403 /\ rq.body = UpstreamBody

\* C5: a Plaid getTransactions request whose access_token is missing or empty is
\* answered 400 {error: "Access token is required"} and has made no upstream call.
C5_MissingAccessToken400 ==
  (rq.handler = "getTransactions" /\ rq.args.access_token \in {Undefined, ""}) =>
    /\ rq.pc = "done" /\ rq.sent = 1
    /\ rq.status = 400
    /\ rq.body = [error |-> "Access token is required"]
    /\ rq.calls = <<>>

C5_Witness ==
  /\ rq.handler = "getTransactions" /\ rq.args.access_token = ""
  /\ rq.status = 400

\* C6: exchangeTruelayerCode and exchangePublicToken make one upstream call, and when
\* it succeeds they answer 200 with a body equal to the upstream payload.
C6_ExchangeVerbatim ==
  (rq.handler \in {"exchangeTruelayerCode", "exchangePublicToken"}) =>
    /\ Len(rq.calls) = 1
    /\ (rq.calls[1].done /\ rq.calls[1].reply.kind = "ok") =>
         /\ rq.pc = "done" /\ rq.sent = 1
         /\ rq.status = 200
         /\ rq.body = rq.calls[1].reply.data

C6_Witness ==
  /\ rq.handler = "exchangeTruelayerCode" /\ rq.pc = "done"
  /\ rq.calls[1].code = "abc"
  /\ rq.body = [access_token |-> "X", refresh_token |-> "Y"]

\* the configured country-code list is empty: the variable is unset or ""
CountryCodesEmpty == env.PLAID_COUNTRY_CODES \in {UndefinedChars, <<>>}

\* C7: createLinkToken answers a configuration error without an upstream call when the
\* configured country-code list is empty, and calls linkTokenCreate with exactly the
\* configured codes when it is not (part_000, which also demands GB in the list, is
\* held to the first half only).
C7_EmptyCountryCodesRejected ==
  (rq.handler = "createLinkToken") =>
    IF CountryCodesEmpty
      THEN rq.calls = <<>> /\ rq.pc = "done" /\ rq.status = 500
      ELSE file # "part_000" =>
             /\ Len(rq.calls) = 1
             /\ rq.calls[1].country_codes = Split(env.PLAID_COUNTRY_CODES, ",")

\* all calls of the request but the last have completed: none starts before the one
\* before it is over
Sequential == \A i \in 1..(Len(rq.calls) - 1) : rq.calls[i].done

\* C9 as stated: a request makes at most two upstream calls, one after the other.
C9_AtMostTwoCalls == Len(rq.calls) <= 2 /\ Sequential

\* C9 as amended: a request makes at most three upstream calls (primary, refresh and
\* retry, in the refresh-capable handlers only; at most one in every other handler),
\* one after the other.
C9_AtMostThreeSequentialCalls ==
  /\ Len(rq.calls) <= 3
  /\ ~InRefreshHandler => Len(rq.calls) <= 1
  /\ Sequential
  /\ rq.pc = "done" => \A i \in 1..Len(rq.calls) : rq.calls[i].done

C9_Witness ==
  /\ Len(rq.calls) = 3 /\ ~rq.calls[3].done
  /\ rq.calls[1].done /\ rq.calls[2].done

\* the configuration is valid: the required values are set and PLAID_ENV names a
\* Plaid environment
ConfigValid ==
  /\ \A v \in {"PLAID_CLIENT_ID", "PLAID_SECRET", "PLAID_ENV"} : env[v] \notin {Undefined, ""}
  /\ env.PLAID_ENV \in {"production", "sandbox", "development"}

\* C10: in the revisions that validate at start, the server listens, and a request is
\* handled, only under a valid configuration.
C10_ListensOnlyWhenValid ==
  (file \in {"part_000", "part_001"} /\ (server = "listening" \/ rq.pc # "idle")) => ConfigValid

\* a well-formed calendar date <<YYYY, MM, DD>>
IsCalendarDate(d) ==
  /\ d[1] \in 1970..9999 /\ d[2] \in 1..12 /\ d[3] \in 1..31
  /\ CivilFromDays(DaysFromCivil(d[1], d[2], d[3])) = d

\* the number of calendar days from date a to date b
DaysBetween(a, b) == DaysFromCivil(b[1], b[2], b[3]) - DaysFromCivil(a[1], a[2], a[3])

\* C8: the start_date Plaid getTransactions sends upstream is the calendar date 30
\* days before the end_date it sends, at every invocation time and in every time zone.
C8_StartIs30DaysBeforeEnd ==
  (rq.handler = "getTransactions" /\ Len(rq.calls) = 1) =>
    /\ IsCalendarDate(rq.calls[1].start_date) /\ IsCalendarDate(rq.calls[1].end_date)
    /\ DaysBetween(rq.calls[1].start_date, rq.calls[1].end_date) = 30

----------------------------------------------------------------------------
(* Requests in flight at once *)

\* the number of upstream calls of request q that have completed
Completed(q) == Cardinality({ k \in 1..Len(q.calls) : q.calls[k].done })

\* request q as its handler leaves it when q is the only request served: entered with
\* q's own inputs and clock reading, then resumed with the first n replies to q's own
\* calls, under configuration e
RECURSIVE ServedAlone(_, _, _)
ServedAlone(e, q, n) ==
  IF n = 0
    THEN IF q.handler = "getTruelayerAccounts"
           THEN StartAccounts(q.args.accessToken, q.args.refreshToken)
           ELSE StartTransactions(q.args.accessToken, q.args.refreshToken,
                                  q.args.accountId, q.locals.now)
    ELSE Resumed(e, ServedAlone(e, q, n - 1), q.calls[n].reply)

\* the tokens that belong to request q: the access token its caller sent and the
\* access tokens of the successful replies to its own refresh calls
OwnTokens(q) ==
  {q.args.accessToken} \cup
  { q.calls[k].reply.data.access_token :
      k \in { j \in 1..Len(q.calls) :
                IsRefreshCall(q.calls[j]) /\ q.calls[j].done /\ q.calls[j].reply.kind = "ok" } }

\* C11: whatever the interleaving of the upstream calls of the requests in flight,
\* each request is in the state (calls made, response sent) that its own inputs, the
\* configuration and the replies to its own calls determine; every bearer token it
\* sends is its caller's or one its own refresh call returned, and the new tokens in
\* its response are those of its own refresh reply.
C11_NoInterference ==
  \A i \in RequestIds :
    LET q == reqs[i]
    IN  q.pc # "idle" =>
          /\ q = ServedAlone(env, q, Completed(q))
          /\ \A k \in 1..Len(q.calls) :
               IsDataCall(q.calls[k]) => q.calls[k].bearer \in OwnTokens(q)
          /\ (q.pc = "done" /\ "newAccessToken" \in DOMAIN q.body) =>
               /\ Len(q.calls) = 3
               /\ q.body.newAccessToken = q.calls[2].reply.data.access_token
               /\ q.body.newRefreshToken = q.calls[2].reply.data.refresh_token

\* request 1 has been answered with the token pair of its refresh while request 2,
\* refreshed to another pair, still awaits its retried call
C11_Witness ==
  /\ reqs[1].pc = "done" /\ reqs[1].status = 200 /\ Len(reqs[1].calls) = 3
  /\ reqs[1].body.newAccessToken = "X"
  /\ reqs[2].pc = "retry" /\ reqs[2].calls[3].bearer = "X2"

----------------------------------------------------------------------------
(* The refresh path: failures, tokens, order *)

\* the refresh call of the request has failed
RefreshFailed ==
  /\ InRefreshHandler /\ Len(rq.calls) >= 2
  /\ rq.calls[2].done /\ rq.calls[2].reply.kind # "ok"

\* the retried data call of the request has failed
RetryFailed ==
  /\ InRefreshHandler /\ Len(rq.calls) >= 3
  /\ rq.calls[3].done /\ rq.calls[3].reply.kind # "ok"

\* the caller has got one response: status 500 and the generic body of the handler,
\* which holds no token
AnsweredGeneric500 ==
  /\ rq.pc = "done" /\ rq.sent = 1
  /\ rq.status = 500
  /\ rq.body = IF rq.handler = "getTruelayerAccounts"
                 THEN [error |-> "Failed to fetch accounts"]
                 ELSE [error |-> "Failed to fetch transactions"]

\* C12: once the refresh call has failed the request has made two calls and no retry;
\* once the retried call has failed, with HTTP 401 or otherwise, it has made three
\* calls and no further one; in both cases the caller has status 500 with the
\* handler's generic body and no new tokens.
C12_NothingRetriedAfterRefresh ==
  /\ RefreshFailed => (Len(rq.calls) = 2 /\ AnsweredGeneric500)
  /\ RetryFailed => (Len(rq.calls) = 3 /\ AnsweredGeneric500)

C12_Witness ==
  /\ RetryFailed /\ rq.pc = "done"
  /\ rq.calls[3].reply.kind = "http" /\ rq.calls[3].reply.status = 401
  /\ HasRefreshToken

\* C13: the retried data call carries as bearer token the access_token of the reply
\* to the request's refresh call, not the access token the caller sent, and the
\* newAccessToken and newRefreshToken of a 200 response are the access_token and
\* refresh_token of that same reply.
C13_RetryCarriesRefreshedToken ==
  (InRefreshHandler /\ Len(rq.calls) = 3) =>
    /\ rq.calls[2].done /\ rq.calls[2].reply.kind = "ok"
    /\ rq.calls[3].bearer = rq.calls[2].reply.data.access_token
    /\ rq.calls[1].bearer = rq.args.accessToken
    /\ (rq.pc = "done" /\ rq.status = 200) =>
         /\ rq.body.newAccessToken = rq.calls[2].reply.data.access_token
         /\ rq.body.newRefreshToken = rq.calls[2].reply.data.refresh_token

C13_Witness ==
  /\ rq.handler = "getTruelayerTransactions" /\ Len(rq.calls) = 3
  /\ rq.pc = "done" /\ rq.status = 200
  /\ rq.args.accessToken = "at0" /\ rq.calls[3].bearer = "X2"
  /\ rq.body.newRefreshToken = "Y2"

\* C14: the calls of a request come in the order primary, refresh, retry: the first
\* is the data call; a second call is the refresh call and is there only once the
\* primary call has returned 401; a third call is the data call again and is there
\* only once the refresh call has succeeded; and a response is sent only when every
\* call of the request has completed.
C14_PrimaryRefreshRetryOrder ==
  InRefreshHandler =>
    /\ Len(rq.calls) \in 1..3
    /\ IsDataCall(rq.calls[1])
    /\ Len(rq.calls) >= 2 =>
         /\ IsRefreshCall(rq.calls[2])
         /\ rq.calls[1].done
         /\ rq.calls[1].reply.kind = "http" /\ rq.calls[1].reply.status = 401
    /\ Len(rq.calls) >= 3 =>
         /\ IsDataCall(rq.calls[3]) /\ rq.calls[3].url = rq.calls[1].url
         /\ rq.calls[2].done /\ rq.calls[2].reply.kind = "ok"
    /\ rq.sent > 0 => \A k \in 1..Len(rq.calls) : rq.calls[k].done
    /\ rq.sent > 0 <=> rq.pc = "done"

C14_Witness ==
  /\ InRefreshHandler /\ rq.sent = 1
  /\ Len(rq.calls) = 3 /\ rq.calls[3].done
  /\ rq.calls[3].reply.kind = "ok"

----------------------------------------------------------------------------
(* Responses *)

\* C15: every request that has entered a handler is eventually answered, and it is
\* answered exactly once: a request holds one response when its handler is through
\* and none before, and never a second one.
C15_ExactlyOneResponse ==
  /\ [](rq.sent <= 1)
  /\ [](rq.pc = "done" <=> rq.sent = 1)
  /\ (rq.pc # "idle") ~> (rq.pc = "done" /\ rq.sent = 1)

\* a request on the refresh path whose retried call got no reply has been answered
C15_Witness ==
  /\ rq.handler = "getTruelayerTransactions" /\ Len(rq.calls) = 3
  /\ rq.calls[3].done /\ rq.calls[3].reply.kind = "network"
  /\ rq.pc = "done" /\ rq.sent = 1

----------------------------------------------------------------------------
(* The date range of the refresh-capable getTruelayerTransactions *)

\* t is the first instant of the UTC month that holds now
IsFirstInstantOfMonthOf(t, now) ==
  /\ MinuteOfDay(t) = 0
  /\ IsoDate(t) = <<IsoDate(now)[1], IsoDate(now)[2], 1>>

\* C16: every data call of the refresh-capable getTruelayerTransactions carries a
\* range whose `from` is the first instant of the UTC month of the invocation time and
\* whose `to` is neither earlier than `from` nor later than the invocation time; the
\* retried call carries the range of the primary call.
C16_RangeIsMonthStartToNow ==
  (rq.handler = "getTruelayerTransactions") =>
    \A k \in 1..Len(rq.calls) :
      IsDataCall(rq.calls[k]) =>
        /\ IsFirstInstantOfMonthOf(rq.calls[k].from, rq.locals.now)
        /\ rq.calls[k].from <= rq.calls[k].to
        /\ rq.calls[k].to <= rq.locals.now
        /\ rq.calls[k].from = rq.calls[1].from /\ rq.calls[k].to = rq.calls[1].to

----------------------------------------------------------------------------
(* The auth link, read back as a URL *)

\* the position of the first x in s, 0 when there is none
IndexOf(s, x) ==
  IF \E k \in 1..Len(s) : s[k] = x
    THEN CHOOSE k \in 1..Len(s) : s[k] = x /\ \A j \in 1..(k - 1) : s[j] # x
    ELSE 0

\* the query of a URL: what follows its first "?"
QueryOf(url) == SubSeq(url, IndexOf(url, "?") + 1, Len(url))

\* the application/x-www-form-urlencoded parser on one name or value: "+" is a
\* space and %XX the character it encodes
RECURSIVE FormDecode(_)
FormDecode(s) ==
  IF s = <<>> THEN <<>>
  ELSE IF s[1] = "+" THEN <<" ">> \o FormDecode(Tail(s))
  ELSE IF s[1] = "%" /\ Len(s) >= 3 /\ \E c \in DOMAIN Escaped : Escaped[c] = SubSeq(s, 1, 3)
    THEN <<CHOOSE c \in DOMAIN Escaped : Escaped[c] = SubSeq(s, 1, 3)>>
         \o FormDecode(SubSeq(s, 4, Len(s)))
  ELSE <<s[1]>> \o FormDecode(Tail(s))

\* <<name, value>> of one piece of a query: split at its first "="
PairOf(piece) ==
  LET i == IndexOf(piece, "=")
  IN  IF i = 0 THEN <<FormDecode(piece), <<>>>>
      ELSE <<FormDecode(SubSeq(piece, 1, i - 1)), FormDecode(SubSeq(piece, i + 1, Len(piece)))>>

\* the values the query of a URL gives to a parameter, in order
QueryParams(url, name) ==
  LET pieces == Split(QueryOf(url), "&")
      pairs  == [k \in 1..Len(pieces) |-> PairOf(pieces[k])]
  IN  [k \in 1..Len(SelectSeq(pairs, LAMBDA pr : pr[1] = name)) |->
         SelectSeq(pairs, LAMBDA pr : pr[1] = name)[k][2]]

TruelayerEnvVars ==
  {"TRUELAYER_CLIENT_ID", "TRUELAYER_CLIENT_SECRET", "TRUELAYER_REDIRECT_URI", "TRUELAYER_ENV"}

\* C17: createTruelayerAuthLink makes no upstream call and answers at once; with one
\* of the four TrueLayer variables unset (absent or empty) the status is 500; with all
\* four set the answer is 200 {authUrl, state, nonce}, and the query of authUrl gives
\* the parameters state and nonce once each, with the values returned next to it.
C17_AuthLinkLocalAndConsistent ==
  (rq.handler = "createTruelayerAuthLink") =>
    /\ rq.calls = <<>>
    /\ rq.pc = "done" /\ rq.sent = 1
    /\ IF \E v \in TruelayerEnvVars : env[v] \in {Undefined, ""}
         THEN rq.status = 500
         ELSE /\ rq.status = 200
              /\ DOMAIN rq.body = {"authUrl", "state", "nonce"}
              /\ QueryParams(rq.body.authUrl, Chars("state")) = <<rq.body.state>>
              /\ QueryParams(rq.body.authUrl, Chars("nonce")) = <<rq.body.nonce>>

\* a link built with a redirect URI that itself holds "&state=evil", a three-letter
\* state and an empty nonce
C17_Witness ==
  /\ rq.handler = "createTruelayerAuthLink" /\ rq.status = 200
  /\ env.TRUELAYER_REDIRECT_URI = "https://app.example/cb?x=1&state=evil"
  /\ rq.body.state = <<"4", "f", "z">> /\ rq.body.nonce = <<>>

====
